---------------------------- MODULE Spec2Model ----------------------------
(* Model of chrono-utils: the month shifter (src/src/month_calc.rs) and    *)
(* the year difference calculator (src/src/year_calc.rs).                  *)
(*                                                                         *)
(* A timestamp is a record [year, month0, day, tod, off]: the local        *)
(* calendar date, the local hour of the day and the zone offset in hours   *)
(* (local = UTC + off).  An Option<DateTime> is a timestamp or None; an    *)
(* unwrap()/expect() of None is a panic, recorded as None in the result.   *)
EXTENDS Integers, Sequences, FiniteSets, TLC

VARIABLES pc, op, self, arg, other, trace, ret, back, years, years_back

vars == <<pc, op, self, arg, other, trace, ret, back, years, years_back>>

-----------------------------------------------------------------------------
(* Bounds *)

\* num_months ranges over -MaxShift..MaxShift
MaxShift == 13

\* the day handed to with_closest_day ranges over 0..MaxDayArg
MaxDayArg == 33

\* years_since is exercised on the years YearBase..YearBase+YearSpan
YearSpan == 2

YearBase == 2016

\* years on which add_months / with_closest_day are exercised: a common
\* year before a century year, a century non-leap year, a 400-leap year,
\* an ordinary leap year and a common year
MonthYears == {1899, 1900, 2000, 2016, 2017}

\* time-of-day/zone payloads carried through the month operations
MonthPayloads == {<<0, 0>>, <<23, -1>>}

\* sampled calendar positions for years_since
YsMonths0 == {0, 2, 5, 11}

YsDays == {1, 11, 15, 21, 31}

YsTods == {0, 23}

YsOffsets == {-1, 0, 1}

-----------------------------------------------------------------------------
(* The calendar primitives of chrono used by the code *)

None == [year |-> 0, month0 |-> 0, day |-> 0, tod |-> 0, off |-> 0]

IsSome(x) == x # None

IsLeapYear(y) == (y % 4 = 0) /\ ((y % 100 # 0) \/ (y % 400 = 0))

DaysInMonth(y, m0) ==
    IF m0 \in {0, 2, 4, 6, 7, 9, 11} THEN 31
    ELSE IF m0 \in {3, 5, 8, 10} THEN 30
    ELSE IF IsLeapYear(y) THEN 29 ELSE 28

ValidDate(y, m0, d) == m0 \in 0..11 /\ d >= 1 /\ d <= DaysInMonth(y, m0)

\* Datelike::with_year: same month and day in year y, None if no such date
with_year(t, y) ==
    IF ValidDate(y, t.month0, t.day) THEN [t EXCEPT !.year = y] ELSE None

\* Datelike::with_day: None if the month has no such day (0 included)
with_day(t, d) ==
    IF ValidDate(t.year, t.month0, d) THEN [t EXCEPT !.day = d] ELSE None

\* Datelike::with_month0: None if m0 > 11 or the month has no day t.day
with_month0(t, m0) ==
    IF ValidDate(t.year, m0, t.day) THEN [t EXCEPT !.month0 = m0] ELSE None

\* Datelike::with_month: one-indexed with_month0
with_month(t, m) == with_month0(t, m - 1)

\* Rust's % on i32: remainder truncating toward zero (sign of the dividend)
RemTrunc(a, b) == IF a >= 0 THEN a % b ELSE -((-a) % b)

\* (x as f64 / 12f64).floor() as i32: exact for every i32 x
FloorDiv12(x) == x \div 12

-----------------------------------------------------------------------------
(* Month shifter: src/src/month_calc.rs *)

\* with_closest_day with the February cap taken without the leap-year test
with_closest_day_NoLeapCheck(t, day) ==
    LET check_day == IF day > 31 THEN 31 ELSE day
        actual_day ==
            IF t.month0 \in {0, 2, 4, 6, 7, 9, 11} THEN check_day
            ELSE IF t.month0 \in {3, 5, 8, 10}
                 THEN (IF check_day > 30 THEN 30 ELSE check_day)
            ELSE IF t.month0 = 1
                 THEN (IF check_day >= 29 THEN 28 ELSE check_day)
            ELSE -1
    IN  IF actual_day = -1 THEN None ELSE with_day(t, actual_day)

\* with_closest_day(&self, day: u32): None stands for the panic of expect()
with_closest_day(t, day) ==
    LET check_day == IF day > 31 THEN 31 ELSE day
        is_leapyear == IsSome(with_day(with_month(with_day(t, 1), 2), 29))
        actual_day ==
            IF t.month0 \in {0, 2, 4, 6, 7, 9, 11} THEN check_day
            ELSE IF t.month0 \in {3, 5, 8, 10}
                 THEN (IF check_day > 30 THEN 30 ELSE check_day)
            ELSE IF t.month0 = 1
                 THEN (IF is_leapyear
                       THEN (IF check_day >= 30 THEN 29 ELSE check_day)
                       ELSE (IF check_day >= 29 THEN 28 ELSE check_day))
            ELSE -1  \* m => panic!("Month value of {} is invalid!", m)
    IN  IF actual_day = -1 THEN None ELSE with_day(t, actual_day)

\* add_months(&self, num_months: i32) with every value it builds; a None
\* intermediate is a failed unwrap()/expect(), after which nothing is built
add_months_trace(t, num_months) ==
    LET abs_new_month == t.month0 + num_months
        years_change == FloorDiv12(abs_new_month)
        actual_new_month ==
            RemTrunc(abs_new_month, 12) + (IF abs_new_month >= 0 THEN 0 ELSE 12)
        new_date_year == with_year(t, t.year + years_change)
        day1_date ==
            IF IsSome(new_date_year) THEN with_day(new_date_year, 1) ELSE None
        month_date ==
            IF IsSome(day1_date) THEN with_month0(day1_date, actual_new_month)
            ELSE None
        result ==
            IF IsSome(month_date)
            THEN with_closest_day(month_date, new_date_year.day)
            ELSE None
    IN  [abs_new_month |-> abs_new_month,
         years_change |-> years_change,
         actual_new_month |-> actual_new_month,
         new_date_year |-> new_date_year,
         day1_date |-> day1_date,
         month_date |-> month_date,
         result |-> result]

add_months(t, num_months) == add_months_trace(t, num_months).result

NoTrace ==
    [abs_new_month |-> 0, years_change |-> 0, actual_new_month |-> 0,
     new_date_year |-> None, day1_date |-> None, month_date |-> None,
     result |-> None]

\* the valid timestamps the month operations are exercised on
MonthTimestamps ==
    {t \in {[year |-> y, month0 |-> m0, day |-> d, tod |-> p[1], off |-> p[2]] :
                y \in MonthYears, m0 \in 0..11, d \in 1..31,
                p \in MonthPayloads} :
        ValidDate(t.year, t.month0, t.day)}

InitAddMonths ==
    /\ op = "add_months"
    /\ self \in MonthTimestamps
    /\ arg \in (-MaxShift)..MaxShift

InitWithClosestDay ==
    /\ op = "with_closest_day"
    /\ self \in MonthTimestamps
    /\ arg \in 0..MaxDayArg

Init ==
    /\ pc = "start"
    /\ InitAddMonths \/ InitWithClosestDay
    /\ other = None
    /\ trace = NoTrace
    /\ ret = None
    /\ back = None
    /\ years = 0
    /\ years_back = 0

\* self.add_months(arg)
AddMonths ==
    /\ pc = "start"
    /\ op = "add_months"
    /\ trace' = add_months_trace(self, arg)
    /\ ret' = add_months(self, arg)
    /\ pc' = "done"
    /\ UNCHANGED <<op, self, arg, other, back, years, years_back>>

\* self.add_months(arg).add_months(-arg): a panic of the first call ends
\* the computation
AddMonthsBack ==
    /\ pc = "done"
    /\ op = "add_months"
    /\ back' = IF IsSome(ret) THEN add_months(ret, -arg) ELSE None
    /\ pc' = "back"
    /\ UNCHANGED <<op, self, arg, other, trace, ret, years, years_back>>

\* self.with_closest_day(arg)
WithClosestDay ==
    /\ pc = "start"
    /\ op = "with_closest_day"
    /\ ret' = with_closest_day(self, arg)
    /\ pc' = "done"
    /\ UNCHANGED <<op, self, arg, other, trace, back, years, years_back>>

Next == AddMonths \/ AddMonthsBack \/ WithClosestDay

Spec == Init /\ [][Next]_vars

-----------------------------------------------------------------------------
(* Year difference calculator: src/src/year_calc.rs *)

\* the calendar day before / after a date
PrevDay(t) ==
    IF t.day > 1 THEN [t EXCEPT !.day = t.day - 1]
    ELSE IF t.month0 > 0
         THEN [t EXCEPT !.month0 = t.month0 - 1,
                        !.day = DaysInMonth(t.year, t.month0 - 1)]
    ELSE [t EXCEPT !.year = t.year - 1, !.month0 = 11, !.day = 31]

NextDay(t) ==
    IF t.day < DaysInMonth(t.year, t.month0) THEN [t EXCEPT !.day = t.day + 1]
    ELSE IF t.month0 < 11 THEN [t EXCEPT !.month0 = t.month0 + 1, !.day = 1]
    ELSE [t EXCEPT !.year = t.year + 1, !.month0 = 0, !.day = 1]

\* DateTime::with_timezone(&Utc): the same instant read at offset zero
with_timezone_utc(t) ==
    LET h == t.tod - t.off
    IN  IF h < 0 THEN [PrevDay(t) EXCEPT !.tod = h + 24, !.off = 0]
        ELSE IF h > 23 THEN [NextDay(t) EXCEPT !.tod = h - 24, !.off = 0]
        ELSE [t EXCEPT !.tod = h, !.off = 0]

\* Datelike::month: one-indexed month
month(t) == t.month0 + 1

\* cmp_month_day with an equal day counted as earlier
cmp_month_day_EqualIsLess(a_utc, b_utc) ==
    IF month(a_utc) > month(b_utc) THEN 0
    ELSE IF month(a_utc) < month(b_utc) THEN -1
    ELSE IF a_utc.day > b_utc.day THEN 0 ELSE -1

\* cmp_month_day comparing the months only
cmp_month_day_MonthOnly(a_utc, b_utc) ==
    IF month(a_utc) >= month(b_utc) THEN 0 ELSE -1

cmp_month_day(a_utc, b_utc) ==
    IF month(a_utc) > month(b_utc) THEN 0
    ELSE IF month(a_utc) < month(b_utc) THEN -1
    ELSE IF a_utc.day >= b_utc.day THEN 0 ELSE -1

\* years_since with the Less arm adding the comparison as the Greater arm does
years_since_LessAdds(a, b) ==
    LET me_utc == with_timezone_utc(a)
        b_utc == with_timezone_utc(b)
        base_years == me_utc.year - b_utc.year
    IN  IF base_years = 0 THEN 0
        ELSE IF base_years > 0 THEN base_years + cmp_month_day(me_utc, b_utc)
        ELSE base_years + cmp_month_day(me_utc, b_utc)

\* years_since without the equal-years short-circuit
years_since_NoShortCircuit(a, b) ==
    LET me_utc == with_timezone_utc(a)
        b_utc == with_timezone_utc(b)
        base_years == me_utc.year - b_utc.year
    IN  IF base_years >= 0 THEN base_years + cmp_month_day(me_utc, b_utc)
        ELSE base_years - cmp_month_day(me_utc, b_utc)

years_since(a, b) ==
    LET me_utc == with_timezone_utc(a)
        b_utc == with_timezone_utc(b)
        base_years == me_utc.year - b_utc.year
    IN  IF base_years = 0 THEN 0
        ELSE IF base_years > 0 THEN base_years + cmp_month_day(me_utc, b_utc)
        ELSE base_years - cmp_month_day(me_utc, b_utc)

\* the valid timestamps years_since is exercised on
YearTimestamps ==
    {t \in [year : YearBase..(YearBase + YearSpan), month0 : YsMonths0,
            day : YsDays, tod : YsTods, off : YsOffsets] :
        ValidDate(t.year, t.month0, t.day)}

InitYears ==
    /\ pc = "start"
    /\ op = "years_since"
    /\ self \in YearTimestamps
    /\ other \in YearTimestamps
    /\ arg = 0
    /\ trace = NoTrace
    /\ ret = None
    /\ back = None
    /\ years = 0
    /\ years_back = 0

\* self.years_since(&other)
YearsSince ==
    /\ pc = "start"
    /\ op = "years_since"
    /\ years' = years_since(self, other)
    /\ pc' = "done"
    /\ UNCHANGED <<op, self, arg, other, trace, ret, back, years_back>>

\* other.years_since(&self): the same pair in the opposite direction
YearsSinceReverse ==
    /\ pc = "done"
    /\ op = "years_since"
    /\ years_back' = years_since(other, self)
    /\ pc' = "back"
    /\ UNCHANGED <<op, self, arg, other, trace, ret, back, years>>

NextYears == YearsSince \/ YearsSinceReverse

SpecYears == InitYears /\ [][NextYears]_vars

-----------------------------------------------------------------------------
(* Properties of the month shifter, checked under Spec *)

Min(x, y) == IF x <= y THEN x ELSE y

AddMonthsDone == op = "add_months" /\ pc \in {"done", "back"}

\* raw = month0(self) + n, with the mathematical quotient and remainder
Raw == self.month0 + arg

DestYear == self.year + (Raw \div 12)

DestMonth0 == Raw % 12

\* C1: add_months is total: for every valid timestamp and every offset the
\* call returns a valid timestamp, and none of the dates it builds on the
\* way (year-adjusted, day-1, month-adjusted) is an invalid calendar date.
AddMonthsTotal ==
    AddMonthsDone =>
        /\ IsSome(trace.new_date_year)
        /\ IsSome(trace.day1_date)
        /\ IsSome(trace.month_date)
        /\ IsSome(ret)
        /\ ValidDate(ret.year, ret.month0, ret.day)

\* C2: the result of add_months(t, n) has month0 = raw mod 12 and
\* year = year(t) + floor(raw / 12), i.e. 12*year + month0 grows by n.
AddMonthsMonthYear ==
    AddMonthsDone =>
        /\ IsSome(ret)
        /\ ret.month0 = DestMonth0
        /\ ret.year = DestYear
        /\ 12 * ret.year + ret.month0 = 12 * self.year + self.month0 + arg

\* C3: the day of add_months(t, n) is min(day(t), D), D being the number of
\* days of the destination month in the destination year.
AddMonthsDayClamp ==
    AddMonthsDone =>
        /\ IsSome(ret)
        /\ ret.day = Min(self.day, DaysInMonth(DestYear, DestMonth0))

\* C7: add_months(add_months(t, n), -n) has the month and the year of t
\* whenever day(t) exists in every month (day(t) <= 28).
RoundTripMonthYear ==
    (op = "add_months" /\ pc = "back" /\ self.day <= 28) =>
        /\ IsSome(back)
        /\ back.month0 = self.month0
        /\ back.year = self.year

\* C8: with_closest_day(day) never fails: it returns a timestamp of the same
\* year and month whose day is the requested day if the month has it, and
\* the last day of the month otherwise (day 0 and days above 31 included).
WithClosestDayTotal ==
    (op = "with_closest_day" /\ pc = "done") =>
        /\ IsSome(ret)
        /\ ret.year = self.year
        /\ ret.month0 = self.month0
        /\ ret.day = IF arg >= 1 /\ arg <= DaysInMonth(self.year, self.month0)
                     THEN arg
                     ELSE DaysInMonth(self.year, self.month0)

\* C9: add_months(t, 0) is identical to t: year, month, day and the
\* time-of-day/zone payload are unchanged.
AddMonthsZeroIdentity ==
    (AddMonthsDone /\ arg = 0) => ret = self

\* a leap day with a non-trivial payload went through add_months(_, 0)
AddMonthsZeroWitness ==
    /\ AddMonthsDone
    /\ arg = 0
    /\ self.month0 = 1
    /\ self.day = 29
    /\ self.tod = 23
    /\ ret = self

\* C10: the month index handed to with_month0 lies in 0..11 for every raw,
\* the negative exact multiples of 12 included.
ActualNewMonthInRange ==
    AddMonthsDone => trace.actual_new_month \in 0..11

-----------------------------------------------------------------------------
(* Properties of the year difference calculator, checked under SpecYears *)

YearsDone == op = "years_since" /\ pc \in {"done", "back"}

SelfUtc == with_timezone_utc(self)

OtherUtc == with_timezone_utc(other)

BaseYears == SelfUtc.year - OtherUtc.year

\* a's (month, day) is strictly earlier in the calendar than b's
Earlier(a, b) ==
    \/ a.month0 < b.month0
    \/ (a.month0 = b.month0 /\ a.day < b.day)

\* C4: when year(a) > year(b) in UTC, years_since is the year difference
\* less one if a's (month, day) is strictly earlier than b's, and the year
\* difference otherwise (an exact anniversary counts as a full year).
YearsSinceLaterYear ==
    (YearsDone /\ BaseYears > 0) =>
        years = IF Earlier(SelfUtc, OtherUtc) THEN BaseYears - 1 ELSE BaseYears

\* an exact anniversary in a later UTC year, reached through a zone shift
\* that changes the UTC date of self
YearsSinceLaterYearWitness ==
    /\ YearsDone
    /\ BaseYears > 0
    /\ SelfUtc.month0 = OtherUtc.month0
    /\ SelfUtc.day = OtherUtc.day
    /\ SelfUtc.day # self.day
    /\ years = BaseYears

\* C5 as stated: when year(a) < year(b) in UTC, years_since is base + 1 if
\* a's (month, day) is not earlier than b's, and base otherwise.
YearsSinceEarlierYearAsStated ==
    (YearsDone /\ BaseYears < 0) =>
        years = IF ~Earlier(SelfUtc, OtherUtc) THEN BaseYears + 1 ELSE BaseYears

\* C5 amended: when year(a) < year(b) in UTC, years_since is base + 1 if
\* a's (month, day) is strictly earlier than b's, and base otherwise.
YearsSinceEarlierYear ==
    (YearsDone /\ BaseYears < 0) =>
        years = IF Earlier(SelfUtc, OtherUtc) THEN BaseYears + 1 ELSE BaseYears

\* an earlier UTC year with an earlier (month, day): one year toward zero
YearsSinceEarlierYearWitness ==
    /\ YearsDone
    /\ BaseYears = -2
    /\ Earlier(SelfUtc, OtherUtc)
    /\ years = -1

\* C6: timestamps whose UTC years are equal are 0 years apart, however
\* their months and days are ordered; in particular t.years_since(t) = 0.
YearsSinceSameYear ==
    (YearsDone /\ BaseYears = 0) => years = 0

\* equal UTC years (the local years differ) with self earlier in the year
YearsSinceSameYearWitness ==
    /\ YearsDone
    /\ BaseYears = 0
    /\ self.year # other.year
    /\ Earlier(SelfUtc, OtherUtc)
    /\ years = 0

\* the UTC (month, day) pairs of self and other are equal
SameMonthDay == SelfUtc.month0 = OtherUtc.month0 /\ SelfUtc.day = OtherUtc.day

\* C11: a.years_since(b) + b.years_since(a) is -1, 0 or 1, and it is 0 (the
\* two directions are exact negations) if and only if the UTC years are
\* equal or the UTC (month, day) pairs are equal.
YearsSinceBothDirections ==
    (op = "years_since" /\ pc = "back") =>
        /\ years + years_back \in {-1, 0, 1}
        /\ (years + years_back = 0) <=> (BaseYears = 0 \/ SameMonthDay)

\* different UTC years and a different (month, day): the two directions
\* are not negations of each other
YearsSinceBothDirectionsWitness ==
    /\ op = "years_since"
    /\ pc = "back"
    /\ BaseYears > 0
    /\ SelfUtc.month0 = OtherUtc.month0
    /\ SelfUtc.day < OtherUtc.day
    /\ years = BaseYears - 1
    /\ years_back = -BaseYears
    /\ years + years_back = -1

=============================================================================
